---- MODULE Spec2Model ----
(***************************************************************************)
(* A model of the taxonomy-gated routing pipeline of the Alexandria        *)
(* Library: the artifact-based taxonomy gate (app/agents/taxonomy_v2.py),  *)
(* the reading router and its validation loop                              *)
(* (app/agents/reading_router.py), the LLM provider's failure modes        *)
(* (app/agents/llm_provider.py) and the routing cache                      *)
(* (app/agents/routing_cache.py).                                          *)
(*                                                                         *)
(* Python values are modelled as follows.  A dict is a function whose      *)
(* DOMAIN is its key set; d.get(k, default) is Get(d, k, default).  A list *)
(* is a sequence.  A string that the code only compares is a TLA+ string;  *)
(* a string that the code takes apart (the question) is a sequence of      *)
(* one-character strings.  The f-string "ch_{book_id}_{n}" is the tuple    *)
(* <<"ch", book_id, n>>, and a stored chapter id "ch_<uuid>" is the tuple  *)
(* <<"ch", uuid>>.  Python's None is the string None.                      *)
(***************************************************************************)
EXTENDS Integers, Sequences, FiniteSets, TLC

None == "None"

(***************************************************************************)
(* Bounds of the model.                                                    *)
(***************************************************************************)
\* Paths the proposer may put in one response.
MaxProposedPaths == 5
\* Recommendations the proposer may put in one path.
MaxProposedRecs == 3
\* route() calls in one behaviour.
MaxRequests == 2
\* Snapshot versions the artifact builder may write.
MaxVersion == 2
\* Revisions of the taxonomy-definition document.
MaxTaxonomyVersion == 2
\* Seconds the clock may advance past the TTL.
MaxClockSteps == 1
\* The recommendations a path of the response holds under SpecLoop and
\* SpecOrder, and the paths a response holds under SpecOrder.
LoopMaxRecs == 2
OrderMaxPaths == 2
\* Threads that call the cache directly, and the calls each makes.
NumThreads == 2
MaxThreadOps == 2

(***************************************************************************)
(* Program constants.                                                      *)
(***************************************************************************)
\* reading_router.py:171  max_books=12
MaxBooks == 12
\* reading_router.py:175  max_chapters_per_book=8
MaxChaptersPerBook == 8
\* reading_router.py:277  hard cap at 4 paths
PathCap == 4
\* reading_router.py:284  hard cap at 6 total recommendations
TotalRecCap == 6
\* routing_cache.py:51  ttl_seconds=3600
TtlSeconds == 3600
\* routing_cache.py:27  the version the cache falls back to when the gate fails
FallbackVersion == 1
\* reading_router.py:328  rationale[:200]
RationaleCap == 200

(***************************************************************************)
(* Python helpers.                                                         *)
(***************************************************************************)
\* dict.get(key, default)
Get(d, k, default) == IF k \in DOMAIN d THEN d[k] ELSE default

\* The empty dict.
EmptyDict == [k \in {} |-> None]

\* d[k] = v on a dict
DictSet(d, k, v) == [x \in (DOMAIN d) \cup {k} |-> IF x = k THEN v ELSE d[x]]

\* del d[k]
DictDel(d, k) == [x \in (DOMAIN d) \ {k} |-> d[x]]

\* The elements of a list.
Range(s) == {s[i] : i \in 1..Len(s)}

\* max() of a non-empty set of integers
SetMax(S) == CHOOSE x \in S : \A y \in S : y <= x

\* list(set) for a set of book ids: its elements in the order the set
\* iterates them.  Python leaves the order unspecified; it follows from the
\* hashes of the strings, so it is one order per process, given here as a
\* list of all the ids.
ListOfSet(S, order) == SelectSeq(order, LAMBDA b : b \in S)

\* s[:n]
Take(s, n) == SubSeq(s, 1, IF Len(s) < n THEN Len(s) ELSE n)

(***************************************************************************)
(* The catalogue artifacts on disk.  book_index.v{N}.json and              *)
(* chapter_index.v{N}.json are written once per version by                 *)
(* admin/build_artifacts.py; their content is a function of the version.   *)
(* Version 1 holds four books: b1 with three chapters, b2 with none, b3    *)
(* tagged for two domains, b4 for another domain.  From version 2 on b2    *)
(* has a chapter.                                                          *)
(***************************************************************************)
BookIndex(v) ==
    << [book_id |-> "b1", domain_ids |-> {"philosophy"}, subdomain_ids |-> {"stoicism"}],
       [book_id |-> "b2", domain_ids |-> {"psychology", "philosophy"}, subdomain_ids |-> {"mindfulness"}],
       [book_id |-> "b3", domain_ids |-> {"strategy", "philosophy"}, subdomain_ids |-> {"power", "social"}],
       [book_id |-> "b4", domain_ids |-> {"strategy"}, subdomain_ids |-> {"military"}] >>

ChapterIndex(v) ==
    << [chapter_id |-> <<"ch", "u11">>, book_id |-> "b1", number |-> 1],
       [chapter_id |-> <<"ch", "u12">>, book_id |-> "b1", number |-> 2],
       [chapter_id |-> <<"ch", "u13">>, book_id |-> "b1", number |-> 3],
       [chapter_id |-> <<"ch", "u31">>, book_id |-> "b3", number |-> 1],
       [chapter_id |-> <<"ch", "u41">>, book_id |-> "b4", number |-> 1] >>
    \o (IF v >= 2 THEN << [chapter_id |-> <<"ch", "u21">>, book_id |-> "b2", number |-> 1] >>
        ELSE <<>>)

\* The chapters table of the database, as CanonService.get_chapters returns
\* it: rows keyed "id", ordered by number.
DbChapters(b) ==
    LET rows == SelectSeq(ChapterIndex(1), LAMBDA c : c.book_id = b)
    IN [i \in 1..Len(rows) |-> [id |-> rows[i].chapter_id, number |-> rows[i].number]]

(***************************************************************************)
(* domain_mapper.py: display names to stable ids.                          *)
(***************************************************************************)
\* str.lower() on the names the model uses.
Lower(s) ==
    CASE s = "Philosophy" -> "philosophy"
      [] s = "UnknownDomain" -> "unknowndomain"
      [] s = "Stoicism" -> "stoicism"
      [] s = "Political Philosophy" -> "political philosophy"
      [] OTHER -> s

DOMAIN_NAME_TO_ID == [x \in {"Philosophy"} |-> "philosophy"]

SUBDOMAIN_NAME_TO_ID ==
    [x \in {"Stoicism", "Political Philosophy"} |->
        IF x = "Stoicism" THEN "stoicism" ELSE "power"]

domain_name_to_id(name) == Get(DOMAIN_NAME_TO_ID, name, Lower(name))

subdomain_name_to_id(name) ==
    IF name = None \/ name = "" THEN None
    ELSE Get(SUBDOMAIN_NAME_TO_ID, name, Lower(name))

map_to_ids(d, s) == <<domain_name_to_id(d), subdomain_name_to_id(s)>>

(***************************************************************************)
(* TaxonomyGateV2: the indexes _load_artifacts builds from one version,    *)
(* and the gate's queries.                                                 *)
(***************************************************************************)
books_by_id(v) == {BookIndex(v)[i].book_id : i \in 1..Len(BookIndex(v))}

\* chapters_by_book: the chapters of each book, in the artifact's order; a
\* book without chapters has no key.
LoadChapters(chapter_list) ==
    [b \in {chapter_list[i].book_id : i \in 1..Len(chapter_list)} |->
        SelectSeq(chapter_list, LAMBDA c : c.book_id = b)]

gate_chapters_by_book(v) == LoadChapters(ChapterIndex(v))

books_by_domain(v) ==
    [d \in UNION {BookIndex(v)[i].domain_ids : i \in 1..Len(BookIndex(v))} |->
        {BookIndex(v)[i].book_id : i \in {j \in 1..Len(BookIndex(v)) : d \in BookIndex(v)[j].domain_ids}}]

books_by_subdomain(v) ==
    [s \in UNION {BookIndex(v)[i].subdomain_ids : i \in 1..Len(BookIndex(v))} |->
        {BookIndex(v)[i].book_id : i \in {j \in 1..Len(BookIndex(v)) : s \in BookIndex(v)[j].subdomain_ids}}]

\* Candidates that leaves the subdomain out.
Candidates_DomainOnly(v, domain_id, subdomain_id) ==
    IF domain_id \in DOMAIN books_by_domain(v) THEN books_by_domain(v)[domain_id] ELSE {}

\* taxonomy_v2.py:156-164: the set get_candidate_books collects.
Candidates(v, domain_id, subdomain_id) ==
    LET fromSub == IF subdomain_id # None /\ subdomain_id # ""
                      /\ subdomain_id \in DOMAIN books_by_subdomain(v)
                   THEN books_by_subdomain(v)[subdomain_id] ELSE {}
        fromDom == IF domain_id \in DOMAIN books_by_domain(v)
                   THEN books_by_domain(v)[domain_id] ELSE {}
    IN fromSub \cup fromDom

\* taxonomy_v2.py:187-192, over the index chapters_by_book.
CandidateChapters(by_book, book_ids, max_chapters_per_book) ==
    [b \in Range(book_ids) |-> Take(Get(by_book, b, <<>>), max_chapters_per_book)]

get_candidate_chapters(v, book_ids, max_chapters_per_book) ==
    CandidateChapters(gate_chapters_by_book(v), book_ids, max_chapters_per_book)

validate_book_id(v, book_id) == book_id \in books_by_id(v)

(***************************************************************************)
(* RoutingCache: query normalisation and key derivation.                   *)
(***************************************************************************)
\* str.lower() on one character of the model's alphabet.
LowerChar(c) == CASE c = "A" -> "a" [] c = "B" -> "b" [] OTHER -> c

IsSpace(c) == c = " "

\* The characters _normalize_query removes: "?!.,;:"
IsPunct(c) == c \in {"?", "!", ".", ",", ";", ":"}

\* str.strip()
RECURSIVE LStrip(_)
LStrip(s) == IF s # <<>> /\ IsSpace(Head(s)) THEN LStrip(Tail(s)) ELSE s

RECURSIVE RStrip(_)
RStrip(s) ==
    IF s # <<>> /\ IsSpace(s[Len(s)]) THEN RStrip(SubSeq(s, 1, Len(s) - 1)) ELSE s

\* str.split(): the maximal runs of non-space characters.
RECURSIVE SplitWords(_, _, _)
SplitWords(s, cur, acc) ==
    IF s = <<>> THEN (IF cur = <<>> THEN acc ELSE Append(acc, cur))
    ELSE IF IsSpace(Head(s))
         THEN SplitWords(Tail(s), <<>>, IF cur = <<>> THEN acc ELSE Append(acc, cur))
         ELSE SplitWords(Tail(s), Append(cur, Head(s)), acc)

\* " ".join(words)
RECURSIVE JoinWords(_)
JoinWords(ws) ==
    IF ws = <<>> THEN <<>>
    ELSE IF Len(ws) = 1 THEN ws[1]
    ELSE ws[1] \o <<" ">> \o JoinWords(Tail(ws))

_normalize_query(query) ==
    LET lowered == [i \in 1..Len(query) |-> LowerChar(query[i])]
        stripped == RStrip(LStrip(lowered))
        noPunct == SelectSeq(stripped, LAMBDA c : ~IsPunct(c))
    IN JoinWords(SplitWords(noPunct, <<>>, <<>>))

\* The key is sha256 of "normalized::domain::subdomain::version", cut to 16
\* hex digits; the hash is taken to be free of collisions, so the key is the
\* tuple of the four components.
_compute_cache_key(query, dom, sub, taxonomy_ver) ==
    << _normalize_query(query), dom, IF sub = None THEN "" ELSE sub, taxonomy_ver >>

(***************************************************************************)
(* The state.                                                              *)
(***************************************************************************)
VARIABLES
    \* The artifacts directory: the versions N with a book_index.vN.json and
    \* chapter_index.vN.json, and the "version" of taxonomy.v1.json.
    artifact_versions, taxonomy_doc_version,
    \* taxonomy_v2._gate: the loaded gate, its version and the taxonomy
    \* version it read at load.
    gate,
    \* RoutingCache.cache: entries, hit and miss counters; time.time().
    cache, hits, misses, now,
    \* settings.USE_MOCK_AGENTS
    use_mock,
    \* The route() call in progress: where it is, its arguments, its locals.
    pc, question, domain, subdomain, available_books, chapters_by_book,
    candidate_book_ids, candidate_books, paths, recommendations,
    path_count, total_recs, cache_key, result,
    \* History of the call in progress: the chapters_by_book argument as
    \* passed, what produced the result, what the proposer did, how many
    \* paths and recommendations of the response the loop has read (while
    \* the loop runs), whether the gate was asked for candidates, which caps
    \* of the loop cut the response short.
    chapters_in, origin, proposer_calls, proposer_outcome,
    proposed_paths, proposed_recs, gate_asked, caps_hit,
    \* History of the cache: per key, the taxonomy-definition version the
    \* gate held when the entry was stored.  Calls made so far.
    entry_definition, served,
    \* History of the call in progress: the snapshot versions of the gates
    \* its gate reads went to, and those of the reads that chose the
    \* candidates and validated the recommendations.
    gate_reads, validated_with,
    \* Threads that call the cache directly: where each is in its call and
    \* what its calls have returned, raised and stored.
    threads,
    \* History of the validation loop, kept when trace.on: the recommendations
    \* proposed so far in the current path and whether each was kept, and for
    \* each path kept where it and its recommendations stood in the response.
    trace,
    \* The order in which this process's sets of book ids iterate: it comes
    \* from the string hashes, which the interpreter seeds at its start.
    hash_seed,
    \* A caller that constructs a TaxonomyGateV2 and queries it directly.
    probe,
    \* The AgentService.route_question() call in progress.
    ask

catalogVars == <<artifact_versions, taxonomy_doc_version>>
cacheVars == <<cache, hits, misses, entry_definition>>
inputVars == <<question, domain, subdomain, available_books, chapters_in>>
sideVars == <<hash_seed, probe, ask>>
loopVars == <<paths, recommendations, path_count, total_recs, proposed_paths, proposed_recs>>
vars == <<artifact_versions, taxonomy_doc_version, gate, cache, hits, misses, now,
          use_mock, pc, question, domain, subdomain, available_books,
          chapters_by_book, candidate_book_ids, candidate_books, paths,
          recommendations, path_count, total_recs, cache_key, result,
          chapters_in, origin, proposer_calls, proposer_outcome,
          proposed_paths, proposed_recs, gate_asked, caps_hit, entry_definition, served,
          gate_reads, validated_with, threads, trace, hash_seed, probe, ask>>

\* list(set) in this process.
\* A set whose iteration order changes from one call to the next.
SetToSeq_PerCall(S) ==
    LET l == ListOfSet(S, hash_seed)
    IN IF probe.last.kind = "books" THEN [i \in 1..Len(l) |-> l[Len(l) + 1 - i]] ELSE l

SetToSeq(S) == ListOfSet(S, hash_seed)

\* taxonomy_v2.py:134-167: list(candidates)[:max_books].
get_candidate_books(v, domain_id, subdomain_id, max_books) ==
    Take(SetToSeq(Candidates(v, domain_id, subdomain_id)), max_books)

\* The orders the model gives a process.  route() uses the list of
\* candidates for membership tests and as the keys of a dict only, so the
\* specifications of route() run under one order; the specification of the
\* gate's queries runs under every order there is.
Seeds == { <<"b1", "b2", "b3", "b4">> }

AllSeeds ==
    { order \in [1..Cardinality(books_by_id(1)) -> books_by_id(1)] :
        \A i, j \in DOMAIN order : i # j => order[i] # order[j] }

NoGate == [loaded |-> FALSE, version |-> 0, taxonomy_version |-> 0]
NoResult == [paths |-> <<>>, is_valid |-> FALSE, refusal_reason |-> "unset"]
NoKey == <<>>

(***************************************************************************)
(* get_taxonomy_gate(): the singleton, created on first use from the       *)
(* highest version on disk; creation fails when there is none.             *)
(***************************************************************************)
_find_latest_version == SetMax(artifact_versions)

GateLoads == gate.loaded \/ artifact_versions # {}

get_taxonomy_gate ==
    IF gate.loaded THEN gate
    ELSE IF artifact_versions = {} THEN NoGate
    ELSE [loaded |-> TRUE, version |-> _find_latest_version,
          taxonomy_version |-> taxonomy_doc_version]

\* get_taxonomy_version that always answers the fallback version.
get_taxonomy_version_Constant == FallbackVersion

\* routing_cache.get_taxonomy_version(): the artifact version of the gate,
\* or 1 when the gate cannot be created.
get_taxonomy_version ==
    IF GateLoads THEN get_taxonomy_gate.version ELSE FallbackVersion

\* The versions a call has read, after one more get_taxonomy_gate(): the
\* gate's version joins them when there is a gate.
ReadGate(reads) ==
    IF GateLoads THEN reads \cup {get_taxonomy_gate.version} ELSE reads

(***************************************************************************)
(* ReadingRouter: the pure parts of _mock_route and _llm_route.            *)
(***************************************************************************)
Refusal(reason) == [paths |-> <<>>, is_valid |-> FALSE, refusal_reason |-> reason]

Success(ps) == [paths |-> ps, is_valid |-> TRUE, refusal_reason |-> None]

\* A string, as far as the router looks at it: its text and its length.  A
\* slice x[:k] keeps the first k characters; a JSON null has no slice.
Str(text, n) == [s |-> text, n |-> n]

JsonNull == [json_null |-> TRUE]

IsNull(x) == "json_null" \in DOMAIN x

Slice(x, k) == IF IsNull(x) THEN x ELSE [x EXCEPT !.n = IF @ > k THEN k ELSE @]

\* reading_router.py:328: the default of rec.get("rationale", ...).
Placeholder == Str("Relevant to your question", 25)

\* reading_router.py:115 and 136: the rationales of _mock_route.
MockRationale(n) ==
    IF n = 1 THEN Str("This text addresses the core concepts related to your question.", 64)
    ELSE Str("A different approach to the same question.", 43)

\* One path of _mock_route: the n-th available book and its first chapter,
\* or the placeholder chapter "ch_mock_n" when it has none.
MockPath(books, chapters, n) ==
    LET book == books[n]
        chs == Get(chapters, book.id, <<>>)
        chapter == IF chs # <<>> THEN chs[1]
                   ELSE [id |-> <<"ch", "mock", n>>, number |-> 1]
    IN [recommendations |->
          << [book_id |-> book.id,
              chapter_id |-> Get(chapter, "id", <<"ch", "mock", n>>),
              chapter_number |-> Get(chapter, "number", 1),
              rationale |-> MockRationale(n)] >>]

_mock_route(books, chapters) ==
    IF books = <<>>
    THEN [paths |-> <<>>, is_valid |-> TRUE,
          refusal_reason |-> "No books available in this domain."]
    ELSE Success(<<MockPath(books, chapters, 1)>>
                 \o (IF Len(books) > 1 THEN <<MockPath(books, chapters, 2)>> ELSE <<>>))

\* reading_router.py:177-179: the gate's chapters fill in for every book the
\* caller gave no chapters for.
MergeChapters(chapters, candidate_chapters) ==
    [b \in (DOMAIN chapters) \cup (DOMAIN candidate_chapters) |->
        IF b \in DOMAIN candidate_chapters /\ (b \notin DOMAIN chapters \/ chapters[b] = <<>>)
        THEN candidate_chapters[b]
        ELSE chapters[b]]

\* reading_router.py:192-195
FilterCandidates(books, candidate_ids) ==
    SelectSeq(books, LAMBDA b : b.id \in Range(candidate_ids))

\* AfterGate without the two refusals: the proposer is always asked.
AfterGate_AlwaysPropose(candidate_ids, cbooks) == "propose"

\* What _llm_route does once it has the candidates: refuse for an unmapped
\* domain, refuse when no candidate is available, or go on to the proposer.
AfterGate(candidate_ids, cbooks) ==
    IF candidate_ids = <<>> THEN "refuse_unmapped"
    ELSE IF cbooks = <<>> THEN "refuse_unavailable"
    ELSE "propose"

\* HandlerFor without the ValueError clause: every exception falls back.
HandlerFor_NoValueErrorClause(exc) == "fallback"

\* The except clauses of _llm_route: ValueError refuses, any other exception
\* falls back to _mock_route.
HandlerFor(exc) == IF exc = "ValueError" THEN "refuse" ELSE "fallback"

\* What LLMProvider.call raises for each way the call can fail: a timeout or
\* rate limit is re-raised after the retries, an API error at once, and
\* content that is not JSON becomes a ValueError.
RaisedBy(outcome) ==
    CASE outcome = "timeout" -> "APITimeoutError"
      [] outcome = "api_error" -> "APIError"
      [] outcome = "bad_json" -> "ValueError"
      [] outcome = "bad_shape" -> "AttributeError"

\* PathCapReached that never ends the loop.
PathCapReached_Never(n) == FALSE

\* PathCapReached off by one: the break comes one path late.
PathCapReached_OffByOne(n) == n > PathCap

\* The caps of the validation loop.
PathCapReached(n) == n >= PathCap

TotalCapReached(n) == n >= TotalRecCap

\* ResolveRec that skips a recommendation whose proposed chapter number does
\* not exist.
ResolveRec_SkipsMissingChapter(rec, cbooks, v, chapters) ==
    LET book_id == Get(rec, "book_id", None)
        chs == Get(chapters, book_id, <<>>)
        proposed == Get(rec, "chapter_number", 1)
        hits_ == SelectSeq(chs, LAMBDA c : Get(c, "number", None) = proposed)
    IN IF book_id = None \/ book_id \notin {cbooks[i].id : i \in 1..Len(cbooks)} THEN <<>>
       ELSE IF ~validate_book_id(v, book_id) THEN <<>>
       ELSE IF hits_ = <<>> THEN <<>>
       ELSE << [book_id |-> book_id,
                chapter_id |-> Get(hits_[1], "id", <<"ch", book_id, proposed>>),
                chapter_number |-> proposed,
                rationale |-> Slice(Get(rec, "rationale", Placeholder), RationaleCap)] >>

\* reading_router.py:328: rec.get("rationale", "Relevant to your
\* question")[:200].  The default stands in only when the key is absent.
Rationale(rec) == Slice(Get(rec, "rationale", Placeholder), RationaleCap)

\* ResolveRec that keeps the proposed chapter number when it falls back to
\* the first chapter.
ResolveRec_KeepsProposedNumber(rec, cbooks, v, chapters) ==
    LET book_id == Get(rec, "book_id", None)
        chs == Get(chapters, book_id, <<>>)
        proposed == Get(rec, "chapter_number", 1)
        hits_ == SelectSeq(chs, LAMBDA c : Get(c, "number", None) = proposed)
        found == hits_ # <<>>
        chapter == IF found THEN hits_[1] ELSE chs[1]
    IN IF book_id = None \/ book_id \notin {cbooks[i].id : i \in 1..Len(cbooks)} THEN <<>>
       ELSE IF ~validate_book_id(v, book_id) THEN <<>>
       ELSE IF ~found /\ chs = <<>> THEN <<>>
       ELSE << [book_id |-> book_id,
                chapter_id |-> Get(chapter, "id", <<"ch", book_id, proposed>>),
                chapter_number |-> proposed,
                rationale |-> Rationale(rec)] >>

\* reading_router.py:287-330: one proposed recommendation against the
\* candidate books, the gate of version v and the chapters; <<>> when it is
\* skipped, else the recommendation that is kept.
ResolveRec(rec, cbooks, v, chapters) ==
    LET book_id == Get(rec, "book_id", None)
        chs == Get(chapters, book_id, <<>>)
        proposed == Get(rec, "chapter_number", 1)
        hits_ == SelectSeq(chs, LAMBDA c : Get(c, "number", None) = proposed)
        found == hits_ # <<>>
        chapter == IF found THEN hits_[1] ELSE chs[1]
        ch_num == IF found THEN proposed ELSE Get(chapter, "number", 1)
    IN IF book_id = None \/ book_id \notin {cbooks[i].id : i \in 1..Len(cbooks)} THEN <<>>
       ELSE IF ~validate_book_id(v, book_id) THEN <<>>
       ELSE IF ~found /\ chs = <<>> THEN <<>>
       ELSE << [book_id |-> book_id,
                chapter_id |-> Get(chapter, "id", <<"ch", book_id, ch_num>>),
                chapter_number |-> ch_num,
                rationale |-> Rationale(rec)] >>

\* reading_router.py:328: a recommendation that has passed every check
\* raises TypeError at the slice when its rationale is null.
RationaleRaises(rec, cbooks, v, chapters) ==
    /\ ResolveRec(rec, cbooks, v, chapters) # <<>>
    /\ IsNull(Get(rec, "rationale", Placeholder))

\* KeepRec that empties the path when a recommendation is skipped.
KeepRec_SkipEmptiesPath(recs, kept) == IF kept = <<>> THEN <<>> ELSE recs \o kept

\* KeepRec that puts a kept recommendation first in its path.
KeepRec_Prepends(recs, kept) == kept \o recs

\* reading_router.py:320-331: recommendations.append(...) for a
\* recommendation that is kept, nothing for one that is skipped.
KeepRec(recs, kept) == recs \o kept

\* reading_router.py:341-352: the result of the loop.
LoopResult(ps) ==
    IF ps = <<>> THEN Refusal("Could not identify relevant reading for this question")
    ELSE Success(ps)

TotalCount(r) ==
    LET RECURSIVE Sum(_)
        Sum(ps) == IF ps = <<>> THEN 0 ELSE Len(Head(ps).recommendations) + Sum(Tail(ps))
    IN Sum(r.paths)

AllRecs(r) ==
    UNION {Range(r.paths[i].recommendations) : i \in 1..Len(r.paths)}

(***************************************************************************)
(* The inputs the model draws.                                             *)
(***************************************************************************)
\* Questions: "A?" and " a " normalise to the same text, "b" to another.
Questions == { <<"A", "?">>, <<" ", "a", " ">>, <<"b">> }

Domains == {"Philosophy", "UnknownDomain"}

Subdomains == {None, "Political Philosophy"}

BookDict(b) == [id |-> b]

\* available_books: none; a list led by a book that is no candidate; a list
\* led by a candidate.  b3 is never available.
AvailableLists ==
    { <<>>, <<BookDict("b4"), BookDict("b1"), BookDict("b2")>>, <<BookDict("b1")>> }

\* chapters_by_book: nothing (None or {}), or the database's chapters of b1.
ChapterDicts == { EmptyDict, [b \in {"b1"} |-> DbChapters(b)] }

\* A response element that is not a dict.
NotADict == [not_a_dict |-> TRUE]

IsDict(x) == "not_a_dict" \notin DOMAIN x

\* Proposed recommendations: a candidate with an existing chapter, with a
\* chapter that does not exist, with no chapter number; a candidate without
\* chapters; a candidate that is not available; an available book that is no
\* candidate; a book the snapshot does not hold; no book id; not a dict.
RecInputs ==
    { [book_id |-> "b1", chapter_number |-> 2],
      [book_id |-> "b1", chapter_number |-> 99],
      [b \in {"book_id"} |-> "b1"],
      [book_id |-> "b2", chapter_number |-> 1],
      [book_id |-> "b3", chapter_number |-> 1],
      [book_id |-> "b4", chapter_number |-> 1],
      [book_id |-> "bX", chapter_number |-> 1],
      [c \in {"chapter_number"} |-> 1],
      NotADict }

\* The ways LLMProvider.call ends.
ProposerOutcomes == {"ok", "timeout", "api_error", "bad_json", "bad_shape"}

\* The history of the validation loop: nothing proposed, nothing kept.
TraceOff == [on |-> FALSE, cur |-> <<>>, kept_from |-> <<>>]

\* The loop has examined rec, and kept it or not.
Examined(tr, rec, is_kept) ==
    IF tr.on THEN [tr EXCEPT !.cur = Append(@, [rec |-> rec, kept |-> is_kept])] ELSE tr

\* The recommendations of the current path that were kept, each with its
\* position among the path's proposed recommendations.
KeptOf(cur) ==
    LET RECURSIVE From(_)
        From(i) == IF i > Len(cur) THEN <<>>
                   ELSE (IF cur[i].kept THEN << [pos |-> i, rec |-> cur[i].rec] >> ELSE <<>>)
                        \o From(i + 1)
    IN From(1)

\* The path at position pos of the response is closed, kept or not.
Closed(tr, pos, is_kept) ==
    IF ~tr.on THEN tr
    ELSE [tr EXCEPT !.cur = <<>>,
                    !.kept_from = IF is_kept
                                  THEN Append(@, [path |-> pos, recs |-> KeptOf(tr.cur)])
                                  ELSE @]

\* The paths built are dropped, or a new call begins.
Forgotten(tr) == [tr EXCEPT !.cur = <<>>, !.kept_from = <<>>]

\* Threads calling RoutingCache directly.  A thread at rest holds what its
\* last get returned (nothing yet, a miss, or a hit with its result), the
\* exception a call of its raised, and the results it has stored.
ThreadIds == 1..NumThreads

NoEntry == [routing_result |-> NoResult, cached_at |-> 0, taxonomy_version |-> 0]

IdleThread ==
    [pc |-> "idle", key |-> NoKey, entry |-> NoEntry, seen |-> {}, scan_time |-> 0,
     returned |-> [kind |-> "none", result |-> NoResult],
     failed |-> None, wrote |-> {}, ops |-> 0]

(***************************************************************************)
(* Init: a fresh process.  No gate, no cache entries, no call in progress. *)
(***************************************************************************)
\* TaxonomyGateV2(version): no argument, or an explicit version.
NoVersion == [given |-> FALSE, version |-> 0]

Version(n) == [given |-> TRUE, version |-> n]

NoCall == [kind |-> "none", domain_id |-> None, subdomain_id |-> None, book_ids |-> <<>>,
           max |-> 0, books |-> <<>>, chapters |-> EmptyDict,
           again |-> FALSE, before |-> <<>>]

\* A caller of the gate that has constructed and asked nothing: the gate it
\* holds, what its last constructor call was given and raised, the order in
\* which the chapter index on disk lists the chapters of b1, and its last
\* query.
IdleProbe ==
    [gate |-> NoGate, arg |-> NoVersion, on_disk |-> {}, failed |-> None,
     chapter_order |-> <<1, 2, 3>>, last |-> NoCall]

\* IntentResult (contracts.py), the confidence in hundredths.
IntentResult(domain_, subdomain_, confidence, is_valid, refusal_reason) ==
    [domain |-> domain_, subdomain |-> subdomain_, confidence |-> confidence,
     is_valid |-> is_valid, refusal_reason |-> refusal_reason]

\* No route_question() call: how the classifier's collaborator call ended,
\* the intent classify returned, whether reading_router.route was called
\* (and how many calls it had served before), and the message returned.
IdleAsk ==
    [pc |-> "idle", outcome |-> None, intent |-> IntentResult(None, None, 0, FALSE, None),
     routed |-> FALSE, served_before |-> 0, message |-> None]

InitProgram ==
    /\ artifact_versions \in {{}, {1}}
    /\ taxonomy_doc_version = 1
    /\ gate = NoGate
    /\ cache = EmptyDict /\ hits = 0 /\ misses = 0 /\ now = 0
    /\ entry_definition = EmptyDict
    /\ use_mock \in BOOLEAN
    /\ pc = "idle"
    /\ question = <<>> /\ domain = None /\ subdomain = None
    /\ available_books = <<>> /\ chapters_by_book = EmptyDict /\ chapters_in = EmptyDict
    /\ candidate_book_ids = <<>> /\ candidate_books = <<>>
    /\ paths = <<>> /\ recommendations = <<>> /\ path_count = 0 /\ total_recs = 0
    /\ cache_key = NoKey /\ result = NoResult
    /\ origin = None /\ proposer_calls = 0 /\ proposer_outcome = None
    /\ proposed_paths = 0 /\ proposed_recs = 0 /\ gate_asked = FALSE
    /\ caps_hit = {}
    /\ served = 0
    /\ gate_reads = {}
    /\ validated_with = {}
    /\ threads = [t \in ThreadIds |-> IdleThread]
    /\ ask = IdleAsk

Init == InitProgram /\ trace = TraceOff /\ hash_seed \in Seeds /\ probe = IdleProbe

\* The same program with the history of the validation loop kept.
InitLoop ==
    /\ InitProgram
    /\ trace = [TraceOff EXCEPT !.on = TRUE]
    /\ hash_seed \in Seeds
    /\ probe = IdleProbe

(***************************************************************************)
(* route(), reading_router.py:39-78.                                       *)
(***************************************************************************)
\* Cacheable that lets every result into the cache.
Cacheable_Everything(r) == TRUE

\* reading_router.py:74: only a valid result is handed to cache.set.
Cacheable(r) == r.is_valid

\* The call returns r: through cache.set when it is valid and the agents are
\* not mocked (reading_router.py:74-78).
Finish(r, o) ==
    /\ result' = r
    /\ origin' = o
    /\ pc' = IF ~use_mock /\ Cacheable(r) THEN "set_key" ELSE "return"

\* A caller calls route(question, domain, subdomain, available_books,
\* chapters_by_book).
StartRoute(Qs, Ds, Ss, As, Cs) ==
    /\ pc \in {"idle", "return"}
    /\ served < MaxRequests
    /\ \E q \in Qs, d \in Ds, s \in Ss, a \in As, c \in Cs :
          /\ question' = q /\ domain' = d /\ subdomain' = s
          /\ available_books' = a
          /\ chapters_in' = c /\ chapters_by_book' = c
    /\ candidate_book_ids' = <<>> /\ candidate_books' = <<>>
    /\ paths' = <<>> /\ recommendations' = <<>> /\ path_count' = 0 /\ total_recs' = 0
    /\ cache_key' = NoKey /\ result' = NoResult
    /\ origin' = None /\ proposer_calls' = 0 /\ proposer_outcome' = None
    /\ proposed_paths' = 0 /\ proposed_recs' = 0 /\ gate_asked' = FALSE
    /\ caps_hit' = {}
    /\ gate_reads' = {}
    /\ validated_with' = {}
    /\ served' = served + 1
    /\ pc' = IF use_mock THEN "mock" ELSE "get_key"
    /\ trace' = Forgotten(trace)
    /\ UNCHANGED <<catalogVars, threads, sideVars, gate, cacheVars, now, use_mock>>

\* Mock mode: _mock_route, no cache.
MockRoute ==
    /\ pc = "mock"
    /\ Finish(_mock_route(available_books, chapters_by_book), "mock")
    /\ UNCHANGED <<catalogVars, trace, threads, sideVars, gate, cacheVars, now, use_mock, inputVars,
                   chapters_by_book, candidate_book_ids, candidate_books, loopVars,
                   cache_key, proposer_calls, proposer_outcome, gate_asked, caps_hit, served, gate_reads, validated_with>>

\* Expired that never lets an entry expire.
Expired_Never(age) == FALSE

\* Expired that is off by one second: an entry of exactly the TTL's age is
\* taken for expired.
Expired_OffByOne(age) == age >= TtlSeconds

\* routing_cache.py:107-108: an entry older than the TTL has expired.
Expired(age) == age > TtlSeconds

\* cache.get, first half: _compute_cache_key reads the version.
CacheGetKey ==
    /\ pc = "get_key"
    /\ gate' = get_taxonomy_gate
    /\ cache_key' = _compute_cache_key(question, domain, subdomain, get_taxonomy_version)
    /\ pc' = "get_lookup"
    /\ gate_reads' = ReadGate(gate_reads)
    /\ UNCHANGED validated_with
    /\ UNCHANGED <<catalogVars, trace, threads, sideVars, cacheVars, now, use_mock, inputVars, chapters_by_book,
                   candidate_book_ids, candidate_books, loopVars, result, origin,
                   proposer_calls, proposer_outcome, gate_asked, caps_hit, served>>

\* cache.get, second half (routing_cache.py:100-123): a miss for an absent
\* key; an expired entry or one of another version is deleted and is a miss;
\* else a hit, which route returns at once.
CacheGetLookup ==
    /\ pc = "get_lookup"
    /\ IF cache_key \notin DOMAIN cache
       THEN /\ misses' = misses + 1
            /\ pc' = "route"
            /\ UNCHANGED <<cache, entry_definition, hits, gate, result, origin, gate_reads, validated_with>>
       ELSE IF Expired(now - cache[cache_key].cached_at)
       THEN /\ cache' = DictDel(cache, cache_key)
            /\ entry_definition' = DictDel(entry_definition, cache_key)
            /\ misses' = misses + 1
            /\ origin' = "expired"
            /\ pc' = "route"
            /\ UNCHANGED <<hits, gate, result, gate_reads, validated_with>>
       ELSE IF cache[cache_key].taxonomy_version # get_taxonomy_version
       THEN /\ gate' = get_taxonomy_gate
            /\ gate_reads' = ReadGate(gate_reads)
            /\ UNCHANGED validated_with
            /\ cache' = DictDel(cache, cache_key)
            /\ entry_definition' = DictDel(entry_definition, cache_key)
            /\ misses' = misses + 1
            /\ pc' = "route"
            /\ UNCHANGED <<hits, result, origin>>
       ELSE /\ gate' = get_taxonomy_gate
            /\ gate_reads' = ReadGate(gate_reads)
            /\ UNCHANGED validated_with
            /\ hits' = hits + 1
            /\ result' = cache[cache_key].routing_result
            /\ origin' = "cache"
            /\ pc' = "return"
            /\ UNCHANGED <<cache, entry_definition, misses>>
    /\ UNCHANGED <<catalogVars, trace, threads, sideVars, now, use_mock, inputVars, chapters_by_book,
                   candidate_book_ids, candidate_books, loopVars, cache_key,
                   proposer_calls, proposer_outcome, gate_asked, caps_hit, served>>

\* _llm_route up to the proposer (reading_router.py:165-202): the gate's
\* candidates, the merge of its chapters, the two refusals.  A gate that
\* cannot be created raises, and the call falls back to _mock_route.
LlmGate ==
    /\ pc = "route"
    /\ gate' = get_taxonomy_gate
    /\ IF ~GateLoads
       THEN /\ Finish(_mock_route(available_books, chapters_by_book), "fallback")
            /\ UNCHANGED <<chapters_by_book, candidate_book_ids, candidate_books, gate_asked>>
       ELSE LET v == get_taxonomy_gate.version
                ids == map_to_ids(domain, subdomain)
                cands == get_candidate_books(v, ids[1], ids[2], MaxBooks)
                merged == IF cands # <<>>
                          THEN MergeChapters(chapters_by_book,
                                             get_candidate_chapters(v, cands, MaxChaptersPerBook))
                          ELSE chapters_by_book
                cbooks == FilterCandidates(available_books, cands)
                next == AfterGate(cands, cbooks)
            IN /\ gate_asked' = TRUE
               /\ candidate_book_ids' = cands
               /\ chapters_by_book' = merged
               /\ candidate_books' = IF cands = <<>> THEN <<>> ELSE cbooks
               /\ CASE next = "refuse_unmapped" ->
                         Finish(Refusal("No books mapped to domain/subdomain in taxonomy"), "refusal")
                    [] next = "refuse_unavailable" ->
                         Finish(Refusal("No candidate books available"), "refusal")
                    [] OTHER ->
                         /\ pc' = "propose"
                         /\ UNCHANGED <<result, origin>>
    /\ gate_reads' = ReadGate(gate_reads)
    /\ validated_with' = ReadGate(validated_with)
    /\ UNCHANGED <<catalogVars, trace, threads, sideVars, cacheVars, now, use_mock, inputVars, loopVars, cache_key,
                   proposer_calls, proposer_outcome, caps_hit, served>>

\* provider.call (reading_router.py:261-268, llm_provider.py:63-159): a
\* parsed response, or an exception that _llm_route's handlers turn into a
\* refusal or into the _mock_route fallback.  A response that is not a dict
\* raises at result.get (reading_router.py:276).
Propose ==
    /\ pc = "propose"
    /\ proposer_calls' = proposer_calls + 1
    /\ \E outcome \in ProposerOutcomes :
          /\ proposer_outcome' = outcome
          /\ IF outcome = "ok"
             THEN /\ pc' = "loop_path"
                  /\ UNCHANGED <<result, origin>>
             ELSE IF HandlerFor(RaisedBy(outcome)) = "refuse"
             THEN Finish(Refusal("Error processing routing request"), "refusal")
             ELSE Finish(_mock_route(available_books, chapters_by_book), "fallback")
    /\ UNCHANGED <<catalogVars, trace, threads, sideVars, gate, cacheVars, now, use_mock, inputVars, chapters_by_book,
                   candidate_book_ids, candidate_books, loopVars, cache_key, gate_asked, caps_hit, served, gate_reads, validated_with>>

\* Leaving the loop ends the life of its iteration state.
LeaveLoop ==
    /\ recommendations' = <<>>
    /\ proposed_paths' = 0
    /\ proposed_recs' = 0

\* An exception inside the loop: the paths built so far are dropped and the
\* except clause returns _mock_route's result (reading_router.py:361-363).
RaiseInLoop ==
    /\ Finish(_mock_route(available_books, chapters_by_book), "fallback")
    /\ LeaveLoop
    /\ paths' = <<>> /\ path_count' = 0 /\ total_recs' = 0
    /\ trace' = Forgotten(trace)
    /\ UNCHANGED caps_hit

\* The validation loop, outer level (reading_router.py:276-281 and
\* 341-352).  The response is read one element at a time, so the model
\* draws each element when the loop reaches it.  The loop ends when the
\* response has no more paths or when the path cap is reached; a path that
\* is not a dict raises at path_data.get.
LoopPath(maxPaths) ==
    /\ pc = "loop_path"
    /\ \/ /\ Finish(LoopResult(paths), "loop")
          /\ LeaveLoop
          /\ UNCHANGED <<paths, path_count, total_recs, caps_hit, gate, trace>>
       \/ /\ proposed_paths < maxPaths
          /\ IF PathCapReached(path_count)
             THEN /\ Finish(LoopResult(paths), "loop")
                  /\ LeaveLoop
                  /\ caps_hit' = caps_hit \cup {"paths"}
                  /\ UNCHANGED <<paths, path_count, total_recs, gate, trace>>
             ELSE \E is_dict \in BOOLEAN :
                    IF is_dict
                    THEN /\ proposed_paths' = proposed_paths + 1
                         /\ recommendations' = <<>>
                         /\ proposed_recs' = 0
                         /\ pc' = "loop_rec"
                         /\ UNCHANGED <<result, origin, paths, path_count, total_recs,
                                        caps_hit, gate, trace>>
                    ELSE RaiseInLoop /\ UNCHANGED gate
    /\ UNCHANGED <<catalogVars, threads, sideVars, cacheVars, now, use_mock, inputVars, chapters_by_book,
                   candidate_book_ids, candidate_books,
                   cache_key, proposer_calls, proposer_outcome, gate_asked, served, gate_reads, validated_with>>

\* reading_router.py:333-339: a path is kept when it kept a recommendation.
ClosePath ==
    /\ IF recommendations # <<>>
       THEN /\ paths' = Append(paths, [recommendations |-> recommendations])
            /\ path_count' = path_count + 1
       ELSE UNCHANGED <<paths, path_count>>
    /\ trace' = Closed(trace, proposed_paths, recommendations # <<>>)
    /\ recommendations' = <<>>
    /\ proposed_recs' = 0
    /\ pc' = "loop_path"
    /\ UNCHANGED <<result, origin, total_recs, gate, proposed_paths, gate_reads, validated_with>>

\* Whether the loop body gets as far as get_taxonomy_gate() for this
\* recommendation (reading_router.py:290-295).
ReachesGate(rec) ==
    /\ Get(rec, "book_id", None) # None
    /\ Get(rec, "book_id", None) \in {candidate_books[i].id : i \in 1..Len(candidate_books)}

\* The validation loop, inner level (reading_router.py:283-331): the path
\* has no more recommendations, or the total cap ends the path, or the next
\* recommendation is skipped or kept.  A recommendation that is not a dict
\* raises at rec.get.
LoopRec(maxRecs, recs) ==
    /\ pc = "loop_rec"
    /\ \/ /\ ClosePath
          /\ UNCHANGED caps_hit
       \/ /\ proposed_recs < maxRecs
          /\ IF TotalCapReached(total_recs)
             THEN /\ ClosePath
                  /\ caps_hit' = caps_hit \cup {"total"}
             ELSE \E rec \in recs :
                    IF ~IsDict(rec) \/ (ReachesGate(rec) /\ ~GateLoads)
                    THEN RaiseInLoop /\ UNCHANGED <<gate, gate_reads, validated_with>>
                    ELSE IF RationaleRaises(rec, candidate_books, get_taxonomy_gate.version,
                                            chapters_by_book)
                    THEN /\ RaiseInLoop
                         /\ gate' = get_taxonomy_gate
                         /\ gate_reads' = ReadGate(gate_reads)
                         /\ validated_with' = ReadGate(validated_with)
                    ELSE LET kept == ResolveRec(rec, candidate_books,
                                                get_taxonomy_gate.version, chapters_by_book)
                         IN /\ gate' = IF ReachesGate(rec) THEN get_taxonomy_gate ELSE gate
                            /\ gate_reads' = IF ReachesGate(rec) THEN ReadGate(gate_reads)
                                              ELSE gate_reads
                            /\ validated_with' = IF ReachesGate(rec) THEN ReadGate(validated_with)
                                                 ELSE validated_with
                            /\ trace' = Examined(trace, rec, kept # <<>>)
                            /\ proposed_recs' = proposed_recs + 1
                            /\ recommendations' = KeepRec(recommendations, kept)
                            /\ total_recs' = total_recs + Len(kept)
                            /\ pc' = "loop_rec"
                            /\ UNCHANGED <<paths, path_count, result, origin,
                                           proposed_paths, caps_hit>>
    /\ UNCHANGED <<catalogVars, threads, sideVars, cacheVars, now, use_mock, inputVars, chapters_by_book,
                   candidate_book_ids, candidate_books,
                   cache_key, proposer_calls, proposer_outcome, gate_asked, served>>

\* cache.set, first half: _compute_cache_key reads the version.
CacheSetKey ==
    /\ pc = "set_key"
    /\ gate' = get_taxonomy_gate
    /\ cache_key' = _compute_cache_key(question, domain, subdomain, get_taxonomy_version)
    /\ pc' = "set_store"
    /\ gate_reads' = ReadGate(gate_reads)
    /\ UNCHANGED validated_with
    /\ UNCHANGED <<catalogVars, trace, threads, sideVars, cacheVars, now, use_mock, inputVars, chapters_by_book,
                   candidate_book_ids, candidate_books, loopVars, result, origin,
                   proposer_calls, proposer_outcome, gate_asked, caps_hit, served>>

\* cache.set, second half (routing_cache.py:143-150): the entry is stamped
\* with the time and the version read now, and stored under the key.
CacheSetStore ==
    /\ pc = "set_store"
    /\ gate' = get_taxonomy_gate
    /\ cache' = DictSet(cache, cache_key,
                        [routing_result |-> result, cached_at |-> now,
                         taxonomy_version |-> get_taxonomy_version])
    /\ entry_definition' = DictSet(entry_definition, cache_key,
                                   get_taxonomy_gate.taxonomy_version)
    /\ pc' = "return"
    /\ gate_reads' = ReadGate(gate_reads)
    /\ UNCHANGED validated_with
    /\ UNCHANGED <<catalogVars, trace, threads, sideVars, hits, misses, now, use_mock, inputVars, chapters_by_book,
                   candidate_book_ids, candidate_books, loopVars, cache_key, result, origin,
                   proposer_calls, proposer_outcome, gate_asked, caps_hit, served>>

(***************************************************************************)
(* The administrator and the clock.                                        *)
(***************************************************************************)
requestVars == <<pc, question, domain, subdomain, available_books, chapters_by_book,
                 candidate_book_ids, candidate_books, paths, recommendations,
                 path_count, total_recs, cache_key, result, chapters_in, origin,
                 proposer_calls, proposer_outcome, proposed_paths, proposed_recs,
                 gate_asked, caps_hit, served, gate_reads, validated_with>>

\* admin/build_artifacts.py main(): writes the next version's two indexes.
BuildArtifacts ==
    LET current == IF artifact_versions = {} THEN 0 ELSE SetMax(artifact_versions)
    IN /\ current < MaxVersion
       /\ artifact_versions' = artifact_versions \cup {current + 1}
       /\ UNCHANGED <<taxonomy_doc_version, gate, cacheVars, now, use_mock, requestVars, threads, sideVars, trace>>

\* The taxonomy-definition document taxonomy.v1.json is revised: its
\* "version" goes up by one.
ReviseTaxonomy ==
    /\ taxonomy_doc_version < MaxTaxonomyVersion
    /\ taxonomy_doc_version' = taxonomy_doc_version + 1
    /\ UNCHANGED <<artifact_versions, gate, cacheVars, now, use_mock, requestVars, threads, sideVars, trace>>

\* reset_taxonomy_gate()
ResetGate ==
    /\ gate.loaded
    /\ gate' = NoGate
    /\ UNCHANGED <<catalogVars, cacheVars, now, use_mock, requestVars, threads, sideVars, trace>>

\* time.time() moves on, by a second or by the TTL; the clock is followed
\* for MaxClockSteps seconds after the start and after one TTL.
Tick ==
    /\ \E d \in {1, TtlSeconds} :
          /\ now + d <= TtlSeconds + MaxClockSteps
          /\ (now + d) % TtlSeconds <= MaxClockSteps
          /\ now' = now + d
    /\ UNCHANGED <<catalogVars, gate, cacheVars, use_mock, requestVars, threads, sideVars, trace>>

(***************************************************************************)
(* Threads calling the cache's operations directly, one dictionary         *)
(* operation at a time: the interpreter may switch threads between any two *)
(* of them.  All calls are for one question, domain and subdomain.         *)
(***************************************************************************)
\* The results the threads store.
ThreadResults ==
    { _mock_route(<<BookDict("b1")>>, EmptyDict), _mock_route(<<BookDict("b2")>>, EmptyDict) }

ThreadKey == _compute_cache_key(<<"A", "?">>, "Philosophy", None, get_taxonomy_version)

\* Thread t goes from its state to th, a state of rest after a finished call.
Rests(t, th) ==
    threads' = [threads EXCEPT ![t] = [th EXCEPT !.pc = "idle", !.ops = threads[t].ops + 1]]

CanCall(t) == threads[t].pc = "idle" /\ threads[t].ops < MaxThreadOps

threadFrame == <<catalogVars, now, use_mock, requestVars, trace, sideVars>>

\* get, routing_cache.py:98-102: the key, then "cache_key not in self.cache".
ThreadGetCheck(t) ==
    /\ CanCall(t)
    /\ gate' = get_taxonomy_gate
    /\ IF ThreadKey \notin DOMAIN cache
       THEN /\ misses' = misses + 1
            /\ Rests(t, [threads[t] EXCEPT !.key = ThreadKey,
                                           !.returned = [kind |-> "miss", result |-> NoResult]])
       ELSE /\ threads' = [threads EXCEPT ![t].pc = "get_read", ![t].key = ThreadKey]
            /\ UNCHANGED misses
    /\ UNCHANGED <<cache, hits, entry_definition, threadFrame>>

\* get, routing_cache.py:104: entry = self.cache[cache_key], a KeyError when
\* the key has gone.
ThreadGetRead(t) ==
    /\ threads[t].pc = "get_read"
    /\ IF threads[t].key \in DOMAIN cache
       THEN threads' = [threads EXCEPT ![t].pc = "get_decide",
                                       ![t].entry = cache[threads[t].key]]
       ELSE Rests(t, [threads[t] EXCEPT !.failed = "KeyError"])
    /\ UNCHANGED <<gate, cacheVars, threadFrame>>

\* get, routing_cache.py:106-123: the entry read is expired or of another
\* version, and is deleted (a KeyError when the key has gone), or is a hit.
ThreadGetDecide(t) ==
    /\ threads[t].pc = "get_decide"
    /\ LET th == threads[t]
           expired == Expired(now - th.entry.cached_at)
       IN IF expired \/ th.entry.taxonomy_version # get_taxonomy_version
          THEN /\ gate' = IF expired THEN gate ELSE get_taxonomy_gate
               /\ IF th.key \in DOMAIN cache
                  THEN /\ cache' = DictDel(cache, th.key)
                       /\ entry_definition' = DictDel(entry_definition, th.key)
                       /\ misses' = misses + 1
                       /\ Rests(t, [th EXCEPT !.returned = [kind |-> "miss", result |-> NoResult]])
                  ELSE /\ Rests(t, [th EXCEPT !.failed = "KeyError"])
                       /\ UNCHANGED <<cache, entry_definition, misses>>
               /\ UNCHANGED hits
          ELSE /\ gate' = get_taxonomy_gate
               /\ hits' = hits + 1
               /\ Rests(t, [th EXCEPT !.returned = [kind |-> "hit",
                                                    result |-> th.entry.routing_result]])
               /\ UNCHANGED <<cache, entry_definition, misses>>
    /\ UNCHANGED threadFrame

\* set, routing_cache.py:141-150: the key and the entry, then one store.
ThreadSet(t) ==
    /\ CanCall(t)
    /\ gate' = get_taxonomy_gate
    /\ \E r \in ThreadResults :
          /\ cache' = DictSet(cache, ThreadKey,
                              [routing_result |-> r, cached_at |-> now,
                               taxonomy_version |-> get_taxonomy_version])
          /\ Rests(t, [threads[t] EXCEPT !.key = ThreadKey, !.wrote = @ \cup {r}])
    /\ entry_definition' = DictSet(entry_definition, ThreadKey,
                                   get_taxonomy_gate.taxonomy_version)
    /\ UNCHANGED <<hits, misses, threadFrame>>

\* clear, routing_cache.py:152-156.
ThreadClear(t) ==
    /\ CanCall(t)
    /\ cache' = EmptyDict /\ entry_definition' = EmptyDict
    /\ hits' = 0 /\ misses' = 0
    /\ Rests(t, threads[t])
    /\ UNCHANGED <<gate, threadFrame>>

\* prune_expired, routing_cache.py:174-175: the time, and the iteration over
\* self.cache.items() begins.
ThreadPruneScan(t) ==
    /\ CanCall(t)
    /\ threads' = [threads EXCEPT ![t].pc = "prune_collect", ![t].seen = DOMAIN cache,
                                  ![t].scan_time = now]
    /\ UNCHANGED <<gate, cacheVars, threadFrame>>

\* prune_expired, routing_cache.py:175-178: the iteration ends with the
\* expired keys, or raises RuntimeError when the dictionary has changed
\* size under it.
ThreadPruneCollect(t) ==
    /\ threads[t].pc = "prune_collect"
    /\ LET th == threads[t]
       IN IF Cardinality(DOMAIN cache) # Cardinality(th.seen)
          THEN Rests(t, [th EXCEPT !.failed = "RuntimeError", !.seen = {}])
          ELSE threads' = [threads EXCEPT
                  ![t].pc = "prune_delete",
                  ![t].seen = {k \in DOMAIN cache :
                                  Expired(th.scan_time - cache[k].cached_at)}]
    /\ UNCHANGED <<gate, cacheVars, threadFrame>>

\* prune_expired, routing_cache.py:179-181: del self.cache[key] for each
\* expired key, a KeyError when the key has gone.
ThreadPruneDelete(t) ==
    /\ threads[t].pc = "prune_delete"
    /\ LET th == threads[t]
       IN IF th.seen = {}
          THEN /\ Rests(t, th)
               /\ UNCHANGED <<cache, entry_definition>>
          ELSE \E k \in th.seen :
                 IF k \in DOMAIN cache
                 THEN /\ cache' = DictDel(cache, k)
                      /\ entry_definition' = DictDel(entry_definition, k)
                      /\ threads' = [threads EXCEPT ![t].seen = @ \ {k}]
                 ELSE /\ Rests(t, [th EXCEPT !.failed = "KeyError", !.seen = {}])
                      /\ UNCHANGED <<cache, entry_definition>>
    /\ UNCHANGED <<gate, hits, misses, threadFrame>>

NextThreads ==
    \/ \E t \in ThreadIds : ThreadGetCheck(t)
    \/ \E t \in ThreadIds : ThreadGetRead(t)
    \/ \E t \in ThreadIds : ThreadGetDecide(t)
    \/ \E t \in ThreadIds : ThreadSet(t)
    \/ \E t \in ThreadIds : ThreadClear(t)
    \/ \E t \in ThreadIds : ThreadPruneScan(t)
    \/ \E t \in ThreadIds : ThreadPruneCollect(t)
    \/ \E t \in ThreadIds : ThreadPruneDelete(t)
    \/ Tick

SpecThreads == Init /\ [][NextThreads]_vars

(***************************************************************************)
(* Spec: route() calls against a catalogue that does not change, with any  *)
(* proposer response within the bounds.                                    *)
(***************************************************************************)
Next ==
    \/ StartRoute({<<"A", "?">>}, Domains, {None}, AvailableLists, ChapterDicts)
    \/ MockRoute
    \/ CacheGetKey
    \/ CacheGetLookup
    \/ LlmGate
    \/ Propose
    \/ LoopPath(MaxProposedPaths)
    \/ LoopRec(MaxProposedRecs, RecInputs)
    \/ CacheSetKey
    \/ CacheSetStore

Spec == Init /\ [][Next]_vars

(***************************************************************************)
(* SpecReload: route() calls while the administrator builds new snapshot   *)
(* versions, revises the taxonomy document and resets the gate.  The       *)
(* proposer's responses are short, and the clock stands still, so that no  *)
(* entry expires.                                                          *)
(***************************************************************************)
\* Paths per response and recommendations per path under SpecReload.
ReloadMaxPaths == 1
ReloadMaxRecs == 1

ReloadQuestions == { <<"A", "?">> }

ReloadAvailable == { <<BookDict("b1"), BookDict("b2")>> }

\* b2 has a chapter from snapshot version 2 on.
ReloadRecs == { [book_id |-> "b2", chapter_number |-> 1] }

NextReload ==
    \/ StartRoute(ReloadQuestions, {"Philosophy"}, Subdomains, ReloadAvailable, {EmptyDict})
    \/ MockRoute
    \/ CacheGetKey
    \/ CacheGetLookup
    \/ LlmGate
    \/ Propose
    \/ LoopPath(ReloadMaxPaths)
    \/ LoopRec(ReloadMaxRecs, ReloadRecs)
    \/ CacheSetKey
    \/ CacheSetStore
    \/ BuildArtifacts
    \/ ReviseTaxonomy
    \/ ResetGate

SpecReload == Init /\ [][NextReload]_vars

(***************************************************************************)
(* SpecClock: route() calls for one question in two spellings while time   *)
(* passes, against a catalogue that does not change.                       *)
(***************************************************************************)
ClockQuestions == { <<"A", "?">>, <<" ", "a", " ">> }

ClockRecs == { [book_id |-> "b1", chapter_number |-> 2] }

NextClock ==
    \/ StartRoute(ClockQuestions, {"Philosophy"}, {None}, {<<BookDict("b1")>>}, ChapterDicts)
    \/ MockRoute
    \/ CacheGetKey
    \/ CacheGetLookup
    \/ LlmGate
    \/ Propose
    \/ LoopPath(ReloadMaxPaths)
    \/ LoopRec(ReloadMaxRecs, ClockRecs)
    \/ CacheSetKey
    \/ CacheSetStore
    \/ Tick

SpecClock == Init /\ [][NextClock]_vars

(***************************************************************************)
(* SpecRecs: route() calls whose response holds a short list of            *)
(* recommendations of every kind, with the history of the loop kept.       *)
(***************************************************************************)
\* Proposed rationales for an existing chapter of b1: null, empty, short,
\* of exactly the cap's length, and one character longer.
RationaleInputs ==
    { JsonNull, Str("", 0), Str("short", 5),
      Str("long", RationaleCap), Str("long", RationaleCap + 1) }

RecsInputs ==
    RecInputs \cup { [book_id |-> "b1", chapter_number |-> 2, rationale |-> r] :
                        r \in RationaleInputs }

NextRecs ==
    \/ StartRoute({<<"A", "?">>}, {"Philosophy"}, {None}, AvailableLists, ChapterDicts)
    \/ MockRoute
    \/ CacheGetKey
    \/ CacheGetLookup
    \/ LlmGate
    \/ Propose
    \/ LoopPath(ReloadMaxPaths)
    \/ LoopRec(ReloadMaxRecs, RecsInputs)
    \/ CacheSetKey
    \/ CacheSetStore

SpecRecs == InitLoop /\ [][NextRecs]_vars

(***************************************************************************)
(* SpecLoop: route() calls whose response holds up to MaxProposedPaths     *)
(* paths of a candidate's chapter and of a book that is no candidate, with *)
(* the history of the loop kept.                                           *)
(***************************************************************************)
LoopRecs ==
    { [book_id |-> "b1", chapter_number |-> 99], [book_id |-> "bX", chapter_number |-> 1] }

NextLoop ==
    \/ StartRoute({<<"A", "?">>}, {"Philosophy"}, {None}, {<<BookDict("b1")>>}, ChapterDicts)
    \/ MockRoute
    \/ CacheGetKey
    \/ CacheGetLookup
    \/ LlmGate
    \/ Propose
    \/ LoopPath(MaxProposedPaths)
    \/ LoopRec(LoopMaxRecs, LoopRecs)
    \/ CacheSetKey
    \/ CacheSetStore

SpecLoop == InitLoop /\ [][NextLoop]_vars

(***************************************************************************)
(* SpecOrder: route() calls whose response holds a few paths of two        *)
(* chapters of a candidate, which the result tells apart, and of a book    *)
(* that is no candidate, with the history of the loop kept.                *)
(***************************************************************************)
OrderRecs ==
    { [book_id |-> "b1", chapter_number |-> 2], [book_id |-> "b1", chapter_number |-> 99],
      [book_id |-> "bX", chapter_number |-> 1] }

NextOrder ==
    \/ StartRoute({<<"A", "?">>}, {"Philosophy"}, {None}, {<<BookDict("b1")>>}, ChapterDicts)
    \/ MockRoute
    \/ CacheGetKey
    \/ CacheGetLookup
    \/ LlmGate
    \/ Propose
    \/ LoopPath(OrderMaxPaths)
    \/ LoopRec(LoopMaxRecs, OrderRecs)
    \/ CacheSetKey
    \/ CacheSetStore

SpecOrder == InitLoop /\ [][NextOrder]_vars

(***************************************************************************)
(* SpecGate: a caller that constructs TaxonomyGateV2 and queries it, in a  *)
(* process of any set order, over a chapter index that lists the chapters  *)
(* of b1 in any order.                                                     *)
(***************************************************************************)
\* taxonomy_v2.py:51: version or self._find_latest_version().  A version of
\* 0 is false and counts as none; with nothing on disk the search raises.
FindsNoVersion(arg) == (~arg.given \/ arg.version = 0) /\ artifact_versions = {}

ChosenVersion(arg) ==
    IF arg.given /\ arg.version # 0 THEN arg.version ELSE _find_latest_version

\* chapter_index.vN.json as the probe's loader reads it: the rows of b1 in
\* the given order, then the others.
ChapterList(v, order) ==
    LET rows == SelectSeq(ChapterIndex(v), LAMBDA c : c.book_id = "b1")
    IN [i \in 1..Len(rows) |-> rows[order[i]]]
       \o SelectSeq(ChapterIndex(v), LAMBDA c : c.book_id # "b1")

ChapterOrders ==
    { order \in [1..3 -> 1..3] : \A i, j \in 1..3 : i # j => order[i] # order[j] }

\* Any set order over the chapter index as the builder writes it, or any
\* chapter index under one set order.
InitGate ==
    /\ InitProgram /\ ~use_mock
    /\ trace = TraceOff
    /\ \/ hash_seed \in AllSeeds /\ probe = IdleProbe
       \/ /\ hash_seed \in Seeds
          /\ \E order \in ChapterOrders : probe = [IdleProbe EXCEPT !.chapter_order = order]

VersionArgs == {NoVersion} \cup {Version(n) : n \in 0..MaxVersion}

\* TaxonomyGateV2.__init__ (taxonomy_v2.py:44-52): the version, then
\* _load_artifacts, which raises FileNotFoundError when an index of that
\* version is missing.
ProbeConstruct ==
    /\ \E arg \in VersionArgs :
          probe' = [probe EXCEPT
             !.arg = arg,
             !.on_disk = artifact_versions,
             !.last = NoCall,
             !.failed = IF FindsNoVersion(arg) \/ ChosenVersion(arg) \notin artifact_versions
                        THEN "FileNotFoundError" ELSE None,
             !.gate = IF FindsNoVersion(arg) \/ ChosenVersion(arg) \notin artifact_versions
                      THEN probe.gate
                      ELSE [loaded |-> TRUE, version |-> ChosenVersion(arg),
                            taxonomy_version |-> taxonomy_doc_version]]
    /\ UNCHANGED <<catalogVars, gate, cacheVars, now, use_mock, requestVars, threads, trace,
                   hash_seed, ask>>

ProbeDomains == {"philosophy", "strategy", "unknowndomain"}

ProbeSubdomains == {None, "", "stoicism", "military", "unknownsub"}

ProbeMaxBooks == {2, MaxBooks}

\* The query repeats the caller's last one, on the same gate object.
SameCall(d, sub, n) ==
    /\ probe.last.kind = "books"
    /\ probe.last.domain_id = d /\ probe.last.subdomain_id = sub /\ probe.last.max = n

\* gate.get_candidate_books(domain_id, subdomain_id, max_books); the record
\* of the call keeps what the same call returned just before.
ProbeBooks ==
    /\ probe.gate.loaded
    /\ \E d \in ProbeDomains, sub \in ProbeSubdomains, n \in ProbeMaxBooks :
          probe' = [probe EXCEPT
             !.last = [NoCall EXCEPT !.kind = "books", !.domain_id = d, !.subdomain_id = sub,
                                     !.max = n,
                                     !.books = get_candidate_books(probe.gate.version, d, sub, n),
                                     !.again = SameCall(d, sub, n),
                                     !.before = IF SameCall(d, sub, n) THEN probe.last.books
                                                ELSE <<>>]]
    /\ UNCHANGED <<catalogVars, gate, cacheVars, now, use_mock, requestVars, threads, trace,
                   hash_seed, ask>>

ProbeBookLists == { <<"b1">>, <<"b2", "b1">>, <<"bX">> }

ProbeMaxChapters == {2, MaxChaptersPerBook}

\* gate.get_candidate_chapters(book_ids, max_chapters_per_book)
ProbeChapters ==
    /\ probe.gate.loaded
    /\ \E ids \in ProbeBookLists, n \in ProbeMaxChapters :
          probe' = [probe EXCEPT
             !.last = [NoCall EXCEPT
                !.kind = "chapters", !.book_ids = ids, !.max = n,
                !.chapters = CandidateChapters(
                                LoadChapters(ChapterList(probe.gate.version, probe.chapter_order)),
                                ids, n)]]
    /\ UNCHANGED <<catalogVars, gate, cacheVars, now, use_mock, requestVars, threads, trace,
                   hash_seed, ask>>

NextGate ==
    \/ BuildArtifacts
    \/ ProbeConstruct
    \/ ProbeBooks
    \/ ProbeChapters

SpecGate == InitGate /\ [][NextGate]_vars

(***************************************************************************)
(* Properties of the validation loop, the refusals and the fallback,       *)
(* under Spec.                                                             *)
(***************************************************************************)
Returned(o) == pc = "return" /\ origin = o

BookIds(books) == {books[i].id : i \in 1..Len(books)}

ProposerFailures == {"timeout", "api_error", "bad_json", "bad_shape"}

\* The gate's candidates for the request, computed anew from the request's
\* domain and subdomain and the loaded snapshot.
RequestCandidates ==
    LET ids == map_to_ids(domain, subdomain)
    IN Range(get_candidate_books(gate.version, ids[1], ids[2], MaxBooks))

\* The chapter ids of the gate's candidate chapters for document b.
CandidateChapterIds(b) ==
    LET chs == get_candidate_chapters(gate.version, <<b>>, MaxChaptersPerBook)[b]
    IN {chs[i].chapter_id : i \in 1..Len(chs)}

\* C1: every recommendation of a result the validation loop returns names a
\* book that is a gate candidate for the request's domain/subdomain, is in
\* the caller's available books and passes validate_book_id, and its
\* chapter_number is the number of a chapter in that book's chapter list.
C1_LoopRecsAreCandidates ==
    Returned("loop") =>
        \A rec \in AllRecs(result) :
            /\ rec.book_id \in RequestCandidates
            /\ rec.book_id \in BookIds(available_books)
            /\ validate_book_id(gate.version, rec.book_id)
            /\ rec.book_id \in DOMAIN chapters_by_book
            /\ \E i \in 1..Len(chapters_by_book[rec.book_id]) :
                   chapters_by_book[rec.book_id][i].number = rec.chapter_number

\* A loop result with a chapter the proposer named and a chapter the loop
\* fell back to, after recommendations were skipped.
C1_Witness ==
    /\ Returned("loop") /\ result.is_valid
    /\ \E r1, r2 \in AllRecs(result) :
          /\ r1.book_id = "b1" /\ r1.chapter_number = 2
          /\ r2.book_id = "b1" /\ r2.chapter_number = 1
    /\ chapters_in # EmptyDict
    /\ Len(available_books) = 3

C3_PathsHoldAtMostTwo ==
    (Returned("loop") /\ result.is_valid) =>
        \A i \in 1..Len(result.paths) :
            /\ Len(result.paths[i].recommendations) >= 1
            /\ Len(result.paths[i].recommendations) <= 2

\* C4: every chapter_id of a result of the validation loop is the id of one
\* of the gate's candidate chapters of its document.
C4_ChapterIdsAreGateCandidates ==
    Returned("loop") =>
        \A rec \in AllRecs(result) : rec.chapter_id \in CandidateChapterIds(rec.book_id)

\* C5: when the gate returns no candidate, route refuses with a reason and
\* the proposer is not called.
C5_EmptyCandidatesRefuse ==
    (pc = "return" /\ gate_asked /\ candidate_book_ids = <<>>) =>
        /\ ~result.is_valid
        /\ result.paths = <<>>
        /\ result.refusal_reason \notin {None, ""}
        /\ proposer_calls = 0

\* An unknown domain was refused, with books available.
C5_Witness ==
    /\ pc = "return" /\ gate_asked /\ candidate_book_ids = <<>>
    /\ domain = "UnknownDomain"
    /\ available_books # <<>>
    /\ origin = "refusal"

C6_WitnessFallback ==
    /\ pc = "return" /\ proposer_outcome = "timeout" /\ result.is_valid
    /\ origin = "fallback"

\* C7: the fallback after a proposer failure names only filtered candidate
\* books, its first path the first candidate and its first chapter, and
\* only chapter ids that exist for those books.
C7_FallbackStaysInCandidates ==
    (Returned("fallback") /\ proposer_outcome \in ProposerFailures) =>
        /\ \A rec \in AllRecs(result) :
              /\ rec.book_id \in BookIds(candidate_books)
              /\ rec.chapter_id \in
                    {DbChapters(rec.book_id)[i].id : i \in 1..Len(DbChapters(rec.book_id))}
                    \cup CandidateChapterIds(rec.book_id)
        /\ result.paths # <<>>
        /\ result.paths[1].recommendations[1].book_id = candidate_books[1].id

\* C8: every result route returns is a success with at least one path or a
\* refusal with no path and a reason.
C8_SuccessOrRefusal ==
    pc = "return" =>
        \/ result.is_valid /\ result.paths # <<>>
        \/ ~result.is_valid /\ result.paths = <<>> /\ result.refusal_reason \notin {None, ""}

(***************************************************************************)
(* Properties of the cache against version changes, under SpecReload.      *)
(***************************************************************************)
\* The get returns the entry stored under its key.
GetHits == pc = "get_lookup" /\ pc' = "return"

\* The get ends, in a hit or in a miss.
GetEnds == pc = "get_lookup" /\ pc' \in {"return", "route"}

SameQuery(k1, k2) == k1[1] = k2[1] /\ k1[2] = k2[2] /\ k1[3] = k2[3]

\* The artifact version a get reads as it returns: that of the gate, or
\* the fallback version when no gate can be created.
VersionAfterGet == IF gate'.loaded THEN gate'.version ELSE FallbackVersion

C10_OldVersionEntryEvicted ==
    [][GetEnds =>
          \A k \in DOMAIN cache' :
              SameQuery(k, cache_key) => cache'[k].taxonomy_version = cache_key[4]]_vars

(***************************************************************************)
(* Properties of the cache against the clock, under SpecClock, and of what *)
(* route stores, under Spec.                                               *)
(***************************************************************************)
\* The get finds an entry under its key; the entry's age as the get reads
\* the clock.
GetFinds == pc = "get_lookup" /\ cache_key \in DOMAIN cache

AgeAtGet == now - cache[cache_key].cached_at

\* The set stores its entry.
SetStores == pc = "set_store" /\ pc' = "return"

\* C11: a get returns an entry only while its age is within the TTL; a get
\* that finds an entry older than the TTL returns a miss and deletes it;
\* a set stamps its entry with the time of the set, from which the TTL
\* runs anew.
C11_HitOnlyWithinTtl ==
    [][/\ GetHits => (GetFinds /\ AgeAtGet <= TtlSeconds)
       /\ (GetFinds /\ GetEnds /\ AgeAtGet > TtlSeconds)
             => (pc' = "route" /\ cache_key \notin DOMAIN cache')
       /\ SetStores => cache'[cache_key].cached_at = now]_vars

\* A get has just found its entry older than the TTL, deleted it and
\* returned a miss.
C11_Witness ==
    /\ pc = "route" /\ origin = "expired"
    /\ now > TtlSeconds
    /\ cache_key \notin DOMAIN cache
    /\ misses = 2

\* C12: every entry of the cache holds a result with is_valid = TRUE, and
\* when route returns a refusal the cache holds no entry for the request.
C12_OnlyValidResultsCached ==
    /\ \A k \in DOMAIN cache : cache[k].routing_result.is_valid
    /\ (pc = "return" /\ ~result.is_valid) =>
          _compute_cache_key(question, domain, subdomain, get_taxonomy_version)
             \notin DOMAIN cache

\* A second request was computed anew and refused, the first having stored
\* nothing.
C12_Witness ==
    /\ pc = "return" /\ ~result.is_valid
    /\ served = 2 /\ misses = 2 /\ hits = 0
    /\ proposer_calls = 1
    /\ cache = EmptyDict

\* C13: a set stores the result it is given under its key, and a get that
\* finds the entry within the TTL returns that result and leaves the entry
\* in the cache, so that the next get returns it again.
C13_GetAfterSetReturnsResult ==
    [][/\ SetStores => cache'[cache_key].routing_result = result
       /\ (GetFinds /\ GetEnds /\ AgeAtGet <= TtlSeconds)
             => /\ pc' = "return"
                /\ result' = cache[cache_key].routing_result
                /\ cache' = cache]_vars

\* A get returned the stored result at the last second of the TTL.
C13_Witness ==
    /\ Returned("cache") /\ hits = 1
    /\ cache_key \in DOMAIN cache
    /\ result = cache[cache_key].routing_result
    /\ now - cache[cache_key].cached_at = TtlSeconds

(***************************************************************************)
(* Properties of a request against builds and gate resets, under           *)
(* SpecReload.                                                             *)
(***************************************************************************)
\* C14: all the gate reads of one request (for the cache key, the
\* candidates and their chapters, each validate_book_id, the key and the
\* stamp of the cache entry) go to one snapshot version.
C14_OneSnapshotPerRequest == Cardinality(gate_reads) <= 1

(***************************************************************************)
(* Properties of the cache under concurrent calls, under SpecThreads.      *)
(***************************************************************************)
\* C15: no cache call of a thread raises, and every hit returns a result
\* that some set stored.
C15_ConcurrentCacheOpsSafe ==
    \A t \in ThreadIds :
        /\ threads[t].failed = None
        /\ threads[t].returned.kind = "hit" =>
              threads[t].returned.result \in UNION {threads[u].wrote : u \in ThreadIds}

(***************************************************************************)
(* Properties of the validation loop seen through its history, under       *)
(* SpecRecs and SpecLoop.                                                  *)
(***************************************************************************)
\* The chapters the loop has for the book a recommendation names.
ChaptersFor(rec) == Get(chapters_by_book, Get(rec, "book_id", None), <<>>)

ChapterNumbers(rec) == {ChaptersFor(rec)[i].number : i \in 1..Len(ChaptersFor(rec))}

\* The recommendation names a valid candidate that has a chapter.
CandidateWithChapters(rec) ==
    /\ Get(rec, "book_id", None) \in BookIds(candidate_books)
    /\ validate_book_id(gate.version, Get(rec, "book_id", None))
    /\ ChaptersFor(rec) # <<>>

\* The i-th recommendation examined in the current path, as it was kept.
KeptAs(i) == recommendations[Cardinality({j \in 1..i : trace.cur[j].kept})]

PathCloses == pc = "loop_rec" /\ pc' = "loop_path"

LoopReturns == pc = "loop_path" /\ pc' \in {"set_key", "return"} /\ origin' = "loop"

\* C17: of the recommendations examined in a path, those that name no
\* candidate are dropped and exactly those that name a valid candidate with
\* a chapter are kept; a path is added to the result's paths when it kept a
\* recommendation and left out only when it kept none; and the loop's result
\* is valid with the paths built when there is one, a refusal when there is
\* none.
C17_InvalidRecDroppedAlone ==
    [][/\ pc = "loop_rec" =>
            /\ \A i \in 1..Len(trace.cur) :
                  /\ trace.cur[i].kept <=> CandidateWithChapters(trace.cur[i].rec)
                  /\ Get(trace.cur[i].rec, "book_id", None) \notin BookIds(candidate_books)
                        => ~trace.cur[i].kept
            /\ Len(recommendations) = Cardinality({i \in 1..Len(trace.cur) : trace.cur[i].kept})
       /\ PathCloses =>
            paths' = IF \E i \in 1..Len(trace.cur) : trace.cur[i].kept
                     THEN Append(paths, [recommendations |-> recommendations])
                     ELSE paths
       /\ LoopReturns =>
            /\ result'.is_valid <=> paths # <<>>
            /\ result'.paths = paths]_vars

\* A result whose first path was the second one proposed, the first having
\* been dropped, and kept its second recommendation alone, the first naming
\* a book that is no candidate.
C17_Witness ==
    /\ Returned("loop")
    /\ result.is_valid
    /\ Len(result.paths) = 1
    /\ Len(result.paths[1].recommendations) = 1
    /\ trace.kept_from[1].path = 2
    /\ trace.kept_from[1].recs[1].pos = 2

\* The result the loop has built so far, or has returned.
Built == IF pc = "return" THEN result.paths ELSE paths

Increasing(positions) ==
    \A i, j \in 1..Len(positions) : i < j => positions[i] < positions[j]

\* C18: the paths of the loop's result come from positions of the response
\* that increase, and the recommendations of each from positions of that
\* path that increase, each being what the recommendation proposed at its
\* position resolves to.
C18_ResultIsSubsequence ==
    (pc \in {"loop_path", "loop_rec"} \/ Returned("loop")) =>
        /\ Len(Built) = Len(trace.kept_from)
        /\ Increasing([i \in 1..Len(trace.kept_from) |-> trace.kept_from[i].path])
        /\ \A i \in 1..Len(trace.kept_from) :
              LET recs == Built[i].recommendations
                  from == trace.kept_from[i].recs
              IN /\ Len(recs) = Len(from)
                 /\ Increasing([j \in 1..Len(from) |-> from[j].pos])
                 /\ \A j \in 1..Len(from) :
                       << recs[j] >> = ResolveRec(from[j].rec, candidate_books,
                                                  gate.version, chapters_by_book)

\* A result of two paths, the first holding chapter 2 and then the chapter
\* that stands in for chapter 99, the second holding them the other way
\* round.
C18_Witness ==
    /\ Returned("loop")
    /\ Len(result.paths) = 2
    /\ trace.kept_from[1].recs = << [pos |-> 1, rec |-> [book_id |-> "b1", chapter_number |-> 2]],
                                    [pos |-> 2, rec |-> [book_id |-> "b1", chapter_number |-> 99]] >>
    /\ trace.kept_from[2].recs = << [pos |-> 1, rec |-> [book_id |-> "b1", chapter_number |-> 99]],
                                    [pos |-> 2, rec |-> [book_id |-> "b1", chapter_number |-> 2]] >>
    /\ result.paths[1].recommendations[1].chapter_number = 2
    /\ result.paths[1].recommendations[2].chapter_number = 1
    /\ result.paths[2].recommendations[1].chapter_number = 1

\* C19, as claimed: no path proposed at position 5 or later is in the
\* result.
C19_OnlyFirstFourContribute ==
    Returned("loop") =>
        \A i \in 1..Len(trace.kept_from) : trace.kept_from[i].path <= PathCap

\* C19, as the code has it: the cap is on the paths kept.  The loop never
\* holds more than 4 paths, takes up another proposed path only while it
\* holds fewer than 4, and once it holds 4 its next step returns them.
C19_AtMostFourKept ==
    [][/\ Len(paths) <= PathCap
       /\ (pc = "loop_path" /\ pc' = "loop_rec") => Len(paths) < PathCap
       /\ (pc = "loop_path" /\ Len(paths) = PathCap) =>
             (LoopReturns /\ result'.paths = paths)]_vars

\* Four paths returned, the fourth of them proposed at position 5: the
\* first proposed path kept nothing.
C19_Witness ==
    /\ Returned("loop")
    /\ Len(result.paths) = PathCap
    /\ trace.kept_from[1].path = 2
    /\ trace.kept_from[PathCap].path = PathCap + 1

\* C20: every recommendation of a returned result has a rationale of 1 to
\* 200 characters, and in a result of the loop the rationale is the
\* placeholder when the proposed one was missing, null or empty, and the
\* first 200 characters of the proposed one when that was longer.
C20_RationaleNonEmptyAndCapped ==
    /\ pc = "return" =>
          \A rec \in AllRecs(result) :
              rec.rationale.n >= 1 /\ rec.rationale.n <= RationaleCap
    /\ Returned("loop") =>
          \A i \in 1..Len(trace.kept_from) : \A j \in 1..Len(trace.kept_from[i].recs) :
              LET proposed == Get(trace.kept_from[i].recs[j].rec, "rationale", JsonNull)
                  rationale == result.paths[i].recommendations[j].rationale
              IN IF IsNull(proposed) \/ proposed.n = 0 THEN rationale = Placeholder
                 ELSE IF proposed.n > RationaleCap
                 THEN rationale = Str(proposed.s, RationaleCap)
                 ELSE rationale = proposed

(***************************************************************************)
(* Properties of the gate's constructor and queries, under SpecGate.       *)
(***************************************************************************)
\* The documents the book index of version v tags with a domain, with a
\* subdomain.
TaggedWithDomain(v, d) ==
    {BookIndex(v)[i].book_id : i \in {j \in 1..Len(BookIndex(v)) : d \in BookIndex(v)[j].domain_ids}}

TaggedWithSubdomain(v, sub) ==
    {BookIndex(v)[i].book_id : i \in {j \in 1..Len(BookIndex(v)) : sub \in BookIndex(v)[j].subdomain_ids}}

AskedBooks == probe.last.kind = "books"

\* C21: the list get_candidate_books returned has no duplicates and at most
\* max_books ids, each tagged with the domain or the subdomain in the
\* loaded snapshot; it holds all of them when they are at most max_books;
\* and when the subdomain is absent or tags nothing it is the list of the
\* domain's matches cut to max_books.
C21_CandidateBooksAreTheUnion ==
    AskedBooks =>
        LET call == probe.last
            v == probe.gate.version
            D == TaggedWithDomain(v, call.domain_id)
            S == TaggedWithSubdomain(v, call.subdomain_id)
        IN /\ Cardinality(Range(call.books)) = Len(call.books)
           /\ Len(call.books) <= call.max
           /\ Range(call.books) \subseteq D \cup S
           /\ Cardinality(D \cup S) <= call.max => Range(call.books) = D \cup S
           /\ S = {} => call.books = Take(ListOfSet(D, hash_seed), call.max)

\* Philosophy with the subdomain military: the three books of the domain
\* and b4, which only the subdomain tags.
C21_Witness ==
    /\ AskedBooks
    /\ probe.last.domain_id = "philosophy" /\ probe.last.subdomain_id = "military"
    /\ probe.last.max = MaxBooks
    /\ Range(probe.last.books) = {"b1", "b2", "b3", "b4"}

\* C22: when the snapshot tags no document with the domain,
\* get_candidate_books returns the empty list, whatever the subdomain.
C22_UnmappedDomainGivesNoCandidates ==
    (AskedBooks /\ TaggedWithDomain(probe.gate.version, probe.last.domain_id) = {})
        => probe.last.books = <<>>

AskedChapters == probe.last.kind = "chapters"

\* The chapter numbers the chapter index on disk gives to the book.
NumbersOnDisk(v, b) ==
    {ChapterIndex(v)[i].number : i \in {j \in 1..Len(ChapterIndex(v)) : ChapterIndex(v)[j].book_id = b}}

\* C24: get_candidate_chapters has an entry for every requested id, in
\* ascending chapter-number order, holding the max lowest-numbered chapters
\* of the document, whatever order the chapter index lists them in.
C24_ChaptersSortedAndLowest ==
    AskedChapters =>
        LET call == probe.last
        IN /\ DOMAIN call.chapters = Range(call.book_ids)
           /\ \A b \in DOMAIN call.chapters :
                 LET got == call.chapters[b]
                     all == NumbersOnDisk(probe.gate.version, b)
                 IN /\ \A i, j \in 1..Len(got) : i < j => got[i].number < got[j].number
                    /\ Len(got) = IF Cardinality(all) < call.max THEN Cardinality(all) ELSE call.max
                    /\ \A i \in 1..Len(got) : \A n \in all :
                          n < got[i].number => \E k \in 1..Len(got) : got[k].number = n

\* The caller's last constructor call has returned or raised.
Constructed == probe.failed # None \/ (probe.gate.loaded /\ probe.on_disk # {})

HighestOnDisk == CHOOSE x \in probe.on_disk : \A y \in probe.on_disk : y <= x

\* C25: without a version the constructor loads the highest version on
\* disk and raises not-found when there is none; with an explicit version
\* the gate it returns holds exactly that version.
C25_ConstructorLoadsAskedVersion ==
    Constructed =>
        IF probe.arg.given
        THEN probe.failed = None => probe.gate.version = probe.arg.version
        ELSE IF probe.on_disk = {}
             THEN probe.failed = "FileNotFoundError"
             ELSE probe.failed = None /\ probe.gate.version = HighestOnDisk

(***************************************************************************)
(* SpecRestamp: route() calls about a book that has chapters in every      *)
(* snapshot, while the administrator builds a snapshot and resets the      *)
(* gate.                                                                   *)
(***************************************************************************)
NextRestamp ==
    \/ StartRoute(ReloadQuestions, {"Philosophy"}, {None}, {<<BookDict("b1")>>}, {EmptyDict})
    \/ MockRoute
    \/ CacheGetKey
    \/ CacheGetLookup
    \/ LlmGate
    \/ Propose
    \/ LoopPath(ReloadMaxPaths)
    \/ LoopRec(ReloadMaxRecs, ClockRecs)
    \/ CacheSetKey
    \/ CacheSetStore
    \/ BuildArtifacts
    \/ ResetGate

SpecRestamp == Init /\ [][NextRestamp]_vars

(***************************************************************************)
(* SpecListing: route() calls over two available candidates, b1 with the   *)
(* database's chapters of a long book and b2 with no chapters, whose       *)
(* response names chapters inside and outside the listing of the prompt.   *)
(***************************************************************************)
\* reading_router.py:205 and :210: the prompt lists the first 10 candidate
\* books and the first 8 chapters of each.
PromptMaxBooks == 10

PromptMaxChapters == 8

\* The chapters of the longest book of the database.
MaxDbChapters == 9

\* CanonService.get_chapters for a book of MaxDbChapters chapters: every
\* chapter of the book, ordered by number.
LongChapters == [i \in 1..MaxDbChapters |-> [id |-> <<"ch", "db", i>>, number |-> i]]

ListingRecs ==
    { [book_id |-> "b1", chapter_number |-> 2],
      [book_id |-> "b1", chapter_number |-> MaxDbChapters],
      [book_id |-> "b2", chapter_number |-> 1] }

\* reading_router.py:204-220: the (book, chapter number) pairs of the
\* listing books_list that the prompt carries; a book without chapters is
\* listed with "Chapter 1: Full Text".
ListedPairs ==
    LET listed == Take(candidate_books, PromptMaxBooks)
    IN UNION { LET b == listed[i].id
                   chapters == Take(Get(chapters_by_book, b, <<>>), PromptMaxChapters)
               IN IF chapters = <<>> THEN { <<b, 1>> }
                  ELSE { <<b, chapters[j].number>> : j \in 1..Len(chapters) }
               : i \in 1..Len(listed) }

NextListing ==
    \/ StartRoute({<<"A", "?">>}, {"Philosophy"}, {None},
                  {<<BookDict("b1"), BookDict("b2")>>}, {[b \in {"b1"} |-> LongChapters]})
    \/ MockRoute
    \/ CacheGetKey
    \/ CacheGetLookup
    \/ LlmGate
    \/ Propose
    \/ LoopPath(ReloadMaxPaths)
    \/ LoopRec(LoopMaxRecs, ListingRecs)
    \/ CacheSetKey
    \/ CacheSetStore

SpecListing == Init /\ [][NextListing]_vars

(***************************************************************************)
(* SpecAsk: AgentService.route_question, from the classifier to the        *)
(* router, over a library whose Philosophy books are b1 and b2.            *)
(***************************************************************************)
\* contracts.py:193-205, the domains the model's collaborator names.
VALID_DOMAINS == {"Philosophy", "History"}

validate_domain(d) == d \in VALID_DOMAINS

\* The ways the classifier's provider.call ends: a JSON object naming a
\* valid domain, naming a domain outside the whitelist, or refusing; text
\* that is no JSON (ValueError); a timeout or API error (another exception).
ClassifierOutcomes == {"philosophy", "history", "hallucinated", "refuses", "bad_json", "timeout"}

CollaboratorFailed(outcome) == outcome \in {"bad_json", "timeout"}

\* The domain a JSON answer of the collaborator names.
AnsweredDomain(outcome) ==
    CASE outcome = "history" -> "History"
      [] outcome = "hallucinated" -> "Atlantis"
      [] OTHER -> "Philosophy"

\* intent_classifier.py:106-202; the collaborator's confidence is 0.8.
_llm_classify(outcome) ==
    IF CollaboratorFailed(outcome)
    THEN IntentResult("Philosophy", None, 30, TRUE, None)
    ELSE IF outcome = "refuses"
    THEN IntentResult("Philosophy", None, 0, FALSE, "Unable to classify query")
    ELSE IF ~validate_domain(AnsweredDomain(outcome))
    THEN IntentResult("Philosophy", None, 56, TRUE, None)
    ELSE IntentResult(AnsweredDomain(outcome), None, 80, TRUE, None)

\* intent_classifier.py:35-104 for a question without keywords.
_mock_classify == IntentResult("Philosophy", None, 50, TRUE, None)

\* CanonService.get_books_by_domain (canon_service.py:192-194)
get_books_by_domain(d) ==
    IF d = "Philosophy" THEN <<BookDict("b1"), BookDict("b2")>> ELSE <<>>

\* agent_service.py:95-97: the chapters of the first ten books.
AskChapters(books) ==
    [b \in {Take(books, 10)[i].id : i \in 1..Len(Take(books, 10))} |-> DbChapters(b)]

\* route_question up to classify's return (agent_service.py:70,
\* intent_classifier.py:24-33).
AskClassify ==
    /\ ask.pc \in {"idle", "done"}
    /\ pc \in {"idle", "return"}
    /\ served < MaxRequests
    /\ \E outcome \in ClassifierOutcomes :
          ask' = [IdleAsk EXCEPT
                    !.pc = "classified",
                    !.outcome = IF use_mock THEN "mock" ELSE outcome,
                    !.intent = IF use_mock THEN _mock_classify ELSE _llm_classify(outcome)]
    /\ UNCHANGED <<catalogVars, gate, cacheVars, now, use_mock, requestVars, threads, trace,
                   hash_seed, probe>>

\* agent_service.py:72-90: the refusal of an invalid intent, the message for
\* a domain without books, or on to the router.
AskDecide ==
    /\ ask.pc = "classified"
    /\ ask' = IF ~ask.intent.is_valid
              THEN [ask EXCEPT !.pc = "done",
                               !.message = IF ask.intent.refusal_reason # None
                                           THEN ask.intent.refusal_reason
                                           ELSE "I couldn't understand your question."]
              ELSE IF get_books_by_domain(ask.intent.domain) = <<>>
              THEN [ask EXCEPT !.pc = "done", !.message = "No books available yet"]
              ELSE [ask EXCEPT !.pc = "call", !.routed = TRUE, !.served_before = served]
    /\ UNCHANGED <<catalogVars, gate, cacheVars, now, use_mock, requestVars, threads, trace,
                   hash_seed, probe>>

\* agent_service.py:99-105: the call of reading_router.route.
AskRoute ==
    /\ ask.pc = "call" /\ served = ask.served_before
    /\ StartRoute({<<"A", "?">>}, {ask.intent.domain}, {ask.intent.subdomain},
                  {get_books_by_domain(ask.intent.domain)},
                  {AskChapters(get_books_by_domain(ask.intent.domain))})

\* agent_service.py:107-122: route has returned.
AskReturn ==
    /\ ask.pc = "call" /\ served = ask.served_before + 1 /\ pc = "return"
    /\ ask' = [ask EXCEPT !.pc = "done",
                          !.message = IF result.paths = <<>>
                                      THEN "I found the domain but couldn't identify specific reading"
                                      ELSE None]
    /\ UNCHANGED <<catalogVars, gate, cacheVars, now, use_mock, requestVars, threads, trace,
                   hash_seed, probe>>

NextAsk ==
    \/ AskClassify
    \/ AskDecide
    \/ AskRoute
    \/ AskReturn
    \/ MockRoute
    \/ CacheGetKey
    \/ CacheGetLookup
    \/ LlmGate
    \/ Propose
    \/ LoopPath(ReloadMaxPaths)
    \/ LoopRec(ReloadMaxRecs, OrderRecs)
    \/ CacheSetKey
    \/ CacheSetStore

SpecAsk == Init /\ [][NextAsk]_vars

(***************************************************************************)
(* Properties of route() about the catalog, the candidates shown to the    *)
(* proposer, the cache and the caller's arguments.                         *)
(***************************************************************************)
\* C26: with the agents not mocked, a route() call made while no snapshot
\* can be loaded returns no valid result.
C26_NoValidResultWithoutCatalog ==
    (pc = "return" /\ ~use_mock /\ artifact_versions = {} /\ ~gate.loaded)
        => ~result.is_valid

\* C27: every (book, chapter number) pair of a result the validation loop
\* returns is a pair of the listing the proposer was given.
C27_AcceptedPairsWereListed ==
    (pc = "return" /\ origin = "loop") =>
        \A rec \in AllRecs(result) : <<rec.book_id, rec.chapter_number>> \in ListedPairs

\* C28: when the classifier's collaborator call fails, classify returns an
\* invalid intent with a refusal reason and route_question calls no router.
C28_ClassifierFailureRefuses ==
    (ask.pc # "idle" /\ CollaboratorFailed(ask.outcome)) =>
        /\ ~ask.intent.is_valid
        /\ ask.intent.refusal_reason # None
        /\ ~ask.routed

\* C29: the entry cache.set stores for a result of the validation loop is
\* keyed with the snapshot version that the candidates and every validated
\* recommendation of the result were checked against.
C29_StoredUnderValidatingVersion ==
    (pc = "return" /\ ~use_mock /\ origin = "loop" /\ result.is_valid)
        => validated_with = {cache_key[4]}

\* The dict the caller passed as chapters_by_book, as the caller sees it:
\* reading_router.py:71 hands `chapters_by_book or {}` to _llm_route, which
\* is the caller's own dict unless that is None or empty.
CallerChapters == IF chapters_in = EmptyDict THEN chapters_in ELSE chapters_by_book

\* C30: route leaves the chapters_by_book it was given as it was, and in
\* mock mode neither reads nor writes the cache.
C30_RouteLeavesArgumentsAlone ==
    /\ CallerChapters = chapters_in
    /\ use_mock => (cache = EmptyDict /\ hits = 0 /\ misses = 0)

====
